---- MODULE Spec2Model ----
(***************************************************************************)
(* rss-mcp: the SQLite-backed store (feeds, posts, posts_fts and its       *)
(* triggers) and the refresh_feeds tool that drives it.                    *)
(*                                                                         *)
(* Nullable columns are options: NULL is <<>>, a value v is <<v>>.         *)
(* A datetime('now') text "YYYY-MM-DD HH:MM:SS" is the number of whole     *)
(* seconds it denotes when read as UTC; a Date.toISOString() text is the   *)
(* number of milliseconds it denotes.                                      *)
(***************************************************************************)
EXTENDS Integers, Sequences, FiniteSets, Bags, TLC

\* ------------------------------------------------------------------ bounds
MaxFeedSeq == 2
MaxPostSeq == 2
MaxBatch == 2
MaxTicks == 2

\* ------------------------------------------------------ program constants
minInterval == 15 * 60 * 1000

\* ------------------------------------------------------------ input sets
NULL == <<>>
Some(v) == <<v>>
IsNull(o) == o = <<>>

Urls == {"https://x.com/feed", "https://y.com/feed"}
\* the instant the process starts at: not a whole second
StartTime == 1000 + 500
TickSteps == {60000, 840000, 3600000}
TZOffsets == {0 - 3600000, 0, 3600000}

EntryPool ==
  { [guid |-> "abc", title |-> Some("t1"), url |-> Some("u1"), summary |-> Some("s1"),
     author |-> Some("a1"), published_at |-> Some(1000)],
    [guid |-> "abc", title |-> Some("t2"), url |-> NULL, summary |-> NULL,
     author |-> NULL, published_at |-> NULL],
    [guid |-> "", title |-> NULL, url |-> Some("u1"), summary |-> NULL,
     author |-> Some("a1"), published_at |-> Some(1000)] }

Batches == UNION { [1..n -> EntryPool] : n \in 0..MaxBatch }
Contents == {"c1", "c2"}

FeedTitles == {NULL, Some("T")}
SiteUrls == {NULL, Some("S")}
Etags == {NULL, Some("e1")}
LastModifieds == {NULL, Some("m1")}

\* feeds, posts, posts_fts: the tables of SCHEMA; sqlite_sequence: the
\* AUTOINCREMENT counters; now: the host clock in ms; ticks: how often it has
\* advanced; tz: the host's offset from UTC in ms; lastOp: the storage call
\* last made; pc, run: the position and the locals of the refresh_feeds
\* handler, with the outcome of every feed so far (trace) and the highest
\* post id given out before the run (seq_before); lastRun: start and
\* refreshed feeds of the run last returned;
\* reader: the position, the locals and the response of the get_post_content
\* handler; popular: those of the get_popular_posts handler
VARIABLES feeds, posts, posts_fts, sqlite_sequence, now, ticks, tz, lastOp, pc, run, lastRun,
          reader, popular

\* lastOp when the store has just been opened: no call made yet
Opened == [op |-> "open", arg |-> <<>>, ret |-> <<>>, err |-> "", again |-> FALSE]

storeVars == <<feeds, posts, posts_fts, sqlite_sequence>>
clockVars == <<now, ticks, tz>>
toolVars == <<reader, popular>>
runVars == <<pc, run, lastRun, toolVars>>
vars == <<feeds, posts, posts_fts, sqlite_sequence, now, ticks, tz, lastOp, pc, run, lastRun,
          reader, popular>>

\* ------------------------------------------------------------- time texts
\* datetime('now'): UTC wall clock, whole seconds, no zone designator
SqlDatetimeNow(t) == t \div 1000
\* new Date().toISOString(): UTC, milliseconds, "Z" designator
toISOStringNow(t) == t

\* ---------------------------------------------------------------- schema
FeedIds == { f.id : f \in feeds }
PostIds == { p.id : p \in posts }

FtsRow(p) == [rowid |-> p.id, title |-> p.title, summary |-> p.summary, content |-> p.content]

\* CREATE TRIGGER posts_ai AFTER INSERT ON posts
posts_ai(fts, new) == fts (+) SetToBag({FtsRow(new)})

\* CREATE TRIGGER posts_ad AFTER DELETE ON posts
posts_ad(fts, old) == fts (-) SetToBag({FtsRow(old)})

\* posts_au without its 'delete' command: the old row stays indexed
posts_au_insertOnly(fts, old, new) == fts (+) SetToBag({FtsRow(new)})

\* CREATE TRIGGER posts_au AFTER UPDATE ON posts
posts_au(fts, old, new) == (fts (-) SetToBag({FtsRow(old)})) (+) SetToBag({FtsRow(new)})

\* the triggers applied once per row of a set of rows
RECURSIVE FireDeletes(_, _)
FireDeletes(fts, rows) ==
  IF rows = {} THEN fts
  ELSE LET r == CHOOSE x \in rows : TRUE
       IN FireDeletes(posts_ad(fts, r), rows \ {r})

RECURSIVE FireUpdates(_, _, _)
FireUpdates(fts, rows, upd) ==
  IF rows = {} THEN fts
  ELSE LET r == CHOOSE x \in rows : TRUE
       IN FireUpdates(posts_au(fts, r, upd[r]), rows \ {r}, upd)

\* feeds.url declared without UNIQUE
UrlTaken_never(url) == FALSE

\* ---------------------------------------------------------------- addFeed
\* feeds.url is UNIQUE NOT NULL: the INSERT throws on a subscribed url
UrlTaken(url) == \E f \in feeds : f.url = url

NewFeed(id, url, title, siteUrl, t) ==
  [id |-> id, url |-> url, title |-> title, site_url |-> siteUrl,
   last_fetched |-> NULL, etag |-> NULL, last_modified |-> NULL,
   created_at |-> SqlDatetimeNow(t)]

addFeedResult(url, title, siteUrl) ==
  IF UrlTaken(url)
  THEN [feeds |-> feeds, seq |-> sqlite_sequence.feeds,
        err |-> "SQLITE_CONSTRAINT_UNIQUE", ret |-> NULL]
  ELSE LET id == sqlite_sequence.feeds + 1
           f == NewFeed(id, url, title, siteUrl, now)
       IN [feeds |-> feeds \cup {f}, seq |-> id, err |-> "", ret |-> Some(f)]

\* ------------------------------------------------------------- removeFeed
\* DELETE FROM feeds WHERE id = ?; posts.feed_id is ON DELETE CASCADE and
\* posts_ad fires for every cascaded row
removeFeedResult(feedId) ==
  LET owned == { p \in posts : p.feed_id = feedId }
      live == feedId \in FeedIds
  IN [feeds |-> { f \in feeds : f.id # feedId },
      posts |-> IF live THEN posts \ owned ELSE posts,
      fts |-> IF live THEN FireDeletes(posts_fts, owned) ELSE posts_fts,
      ret |-> live]

\* --------------------------------------------------------- updateFeedMeta
\* SET title = ?, site_url = ? without COALESCE
Coalesce_overwrites(a, b) == a

\* COALESCE(?, column)
Coalesce(a, b) == IF IsNull(a) THEN b ELSE a

\* updateFeedMeta without last_fetched = datetime('now')
updateFeedMetaRow_keepsLastFetched(f, title, siteUrl, etag, lastModified, t) ==
  [f EXCEPT !.title = Coalesce(title, f.title),
            !.site_url = Coalesce(siteUrl, f.site_url),
            !.etag = etag,
            !.last_modified = lastModified]

\* updateFeedMeta with etag = COALESCE(?, etag) and the same for last_modified
updateFeedMetaRow_coalescesValidators(f, title, siteUrl, etag, lastModified, t) ==
  [f EXCEPT !.title = Coalesce(title, f.title),
            !.site_url = Coalesce(siteUrl, f.site_url),
            !.last_fetched = Some(SqlDatetimeNow(t)),
            !.etag = Coalesce(etag, f.etag),
            !.last_modified = Coalesce(lastModified, f.last_modified)]

updateFeedMetaRow(f, title, siteUrl, etag, lastModified, t) ==
  [f EXCEPT !.title = Coalesce(title, f.title),
            !.site_url = Coalesce(siteUrl, f.site_url),
            !.last_fetched = Some(SqlDatetimeNow(t)),
            !.etag = etag,
            !.last_modified = lastModified]

updateFeedMetaResult(fs, feedId, title, siteUrl, etag, lastModified, t) ==
  { IF f.id = feedId THEN updateFeedMetaRow(f, title, siteUrl, etag, lastModified, t) ELSE f
    : f \in fs }

\* ------------------------------------------------------------ upsertPosts
NewPost(id, feedId, e, t) ==
  [id |-> id, feed_id |-> feedId, guid |-> e.guid, title |-> e.title, url |-> e.url,
   summary |-> e.summary, content |-> NULL, author |-> e.author,
   published_at |-> e.published_at, fetched_at |-> SqlDatetimeNow(t),
   is_read |-> 0, read_at |-> NULL, starred |-> 0]

\* the empty guid stored as NULL, which UNIQUE never finds equal
UniqueConflict_emptyGuidDistinct(ps, feedId, guid) ==
  \E p \in ps : p.feed_id = feedId /\ p.guid = guid /\ guid # ""

\* UNIQUE(feed_id, guid) with OR IGNORE
UniqueConflict(ps, feedId, guid) == \E p \in ps : p.feed_id = feedId /\ p.guid = guid

\* the store opened without PRAGMA foreign_keys = ON
ForeignKeyOk_pragmaOff(fs, feedId) == TRUE

\* feed_id REFERENCES feeds(id), PRAGMA foreign_keys = ON
ForeignKeyOk(fs, feedId) == \E f \in fs : f.id = feedId

\* count++ without the result.changes > 0 test
InsertOrIgnore_countAll(st, fs, feedId, e, t) ==
  IF st.err # "" THEN st
  ELSE IF UniqueConflict(st.posts, feedId, e.guid)
  THEN [st EXCEPT !.seq = st.seq + 1, !.count = st.count + 1]
  ELSE IF ~ForeignKeyOk(fs, feedId)
  THEN [st EXCEPT !.err = "SQLITE_CONSTRAINT_FOREIGNKEY"]
  ELSE LET p == NewPost(st.seq + 1, feedId, e, t)
       IN [st EXCEPT !.posts = st.posts \cup {p},
                     !.fts = posts_ai(st.fts, p),
                     !.seq = st.seq + 1,
                     !.count = st.count + 1]

\* INSERT OR REPLACE: the conflicting row is deleted and the new one inserted
InsertOrIgnore_replace(st, fs, feedId, e, t) ==
  IF st.err # "" THEN st
  ELSE IF ~ForeignKeyOk(fs, feedId)
  THEN [st EXCEPT !.err = "SQLITE_CONSTRAINT_FOREIGNKEY"]
  ELSE LET old == { q \in st.posts : q.feed_id = feedId /\ q.guid = e.guid }
           p == NewPost(st.seq + 1, feedId, e, t)
       IN [st EXCEPT !.posts = (st.posts \ old) \cup {p},
                     !.fts = posts_ai(FireDeletes(st.fts, old), p),
                     !.seq = st.seq + 1,
                     !.count = st.count + 1]

\* one stmt.run of INSERT OR IGNORE inside the transaction; AUTOINCREMENT
\* hands out a rowid to an ignored row too
InsertOrIgnore(st, fs, feedId, e, t) ==
  IF st.err # "" THEN st
  ELSE IF UniqueConflict(st.posts, feedId, e.guid)
  THEN [st EXCEPT !.seq = st.seq + 1]
  ELSE IF ~ForeignKeyOk(fs, feedId)
  THEN [st EXCEPT !.err = "SQLITE_CONSTRAINT_FOREIGNKEY"]
  ELSE LET p == NewPost(st.seq + 1, feedId, e, t)
       IN [st EXCEPT !.posts = st.posts \cup {p},
                     !.fts = posts_ai(st.fts, p),
                     !.seq = st.seq + 1,
                     !.count = st.count + 1]

RECURSIVE insertMany(_, _, _, _, _, _)
insertMany(st, fs, feedId, entries, i, t) ==
  IF i > Len(entries) THEN st
  ELSE insertMany(InsertOrIgnore(st, fs, feedId, entries[i], t), fs, feedId, entries, i + 1, t)

\* the statements run one by one in autocommit mode
transaction_autocommit(st0, st) == st

\* db.transaction: a throw inside rolls every statement of the batch back
transaction(st0, st) == IF st.err # "" THEN [st0 EXCEPT !.err = st.err] ELSE st

upsertPostsResult(ps, fts, seq, fs, feedId, entries, t) ==
  LET st0 == [posts |-> ps, fts |-> fts, seq |-> seq, count |-> 0, err |-> ""]
  IN transaction(st0, insertMany(st0, fs, feedId, entries, 1, t))

\* upsertPosts when the engine cannot write the row of entries[k] (the disk is
\* full): stmt.run throws after the statements before it have run
upsertPostsInterrupted(ps, fts, seq, fs, feedId, entries, k, t) ==
  LET st0 == [posts |-> ps, fts |-> fts, seq |-> seq, count |-> 0, err |-> ""]
      st == insertMany(st0, fs, feedId, SubSeq(entries, 1, k - 1), 1, t)
  IN transaction(st0, IF st.err # "" THEN st ELSE [st EXCEPT !.err = "SQLITE_FULL"])

\* ------------------------------------------------- markRead / markUnread
markReadRow(p, t) == [p EXCEPT !.is_read = 1, !.read_at = Some(toISOStringNow(t))]

\* markUnread that clears the flag only
markUnreadRow_keepsReadAt(p) == [p EXCEPT !.is_read = 0]

markUnreadRow(p) == [p EXCEPT !.is_read = 0, !.read_at = NULL]

\* markRead returning postIds.length instead of result.changes
markReadResult_countsIds(postIds) ==
  LET hit == { p \in posts : p.id \in postIds }
      upd == [p \in hit |-> markReadRow(p, now)]
  IN IF postIds = {}
     THEN [posts |-> posts, fts |-> posts_fts, ret |-> 0]
     ELSE [posts |-> (posts \ hit) \cup { upd[p] : p \in hit },
           fts |-> FireUpdates(posts_fts, hit, upd),
           ret |-> Cardinality(postIds)]

markReadResult(postIds) ==
  LET hit == { p \in posts : p.id \in postIds }
      upd == [p \in hit |-> markReadRow(p, now)]
  IN IF postIds = {}
     THEN [posts |-> posts, fts |-> posts_fts, ret |-> 0]
     ELSE [posts |-> (posts \ hit) \cup { upd[p] : p \in hit },
           fts |-> FireUpdates(posts_fts, hit, upd),
           ret |-> Cardinality(hit)]

markUnreadResult(postIds) ==
  LET hit == { p \in posts : p.id \in postIds }
      upd == [p \in hit |-> markUnreadRow(p)]
  IN IF postIds = {}
     THEN [posts |-> posts, fts |-> posts_fts, ret |-> 0]
     ELSE [posts |-> (posts \ hit) \cup { upd[p] : p \in hit },
           fts |-> FireUpdates(posts_fts, hit, upd),
           ret |-> Cardinality(hit)]

\* ------------------------------------------------------ updatePostContent
updatePostContentRow(p, content) == [p EXCEPT !.content = Some(content)]

updatePostContentResult(postId, content) ==
  LET hit == { p \in posts : p.id = postId }
      upd == [p \in hit |-> updatePostContentRow(p, content)]
  IN [posts |-> (posts \ hit) \cup { upd[p] : p \in hit },
      fts |-> FireUpdates(posts_fts, hit, upd)]

\* ---------------------------------------------------------------- getPosts
\* the words fts5 indexes for one column: a stored text is one word here
Tokens(text) == IF IsNull(text) THEN {} ELSE {text[1]}

\* posts_fts declared over title and summary only
FtsMatch_withoutContent(e, term) == term \in Tokens(e.title) \cup Tokens(e.summary)

\* posts_fts MATCH ?: the term occurs in one of the indexed columns of the row
FtsMatch(e, term) == term \in Tokens(e.title) \cup Tokens(e.summary) \cup Tokens(e.content)

\* published_at texts are toISOString() outputs of equal length: their binary
\* comparison is the comparison of the instants
TextGE(a, b) == a >= b

\* the WHERE clause: the conditions pushed for the options given, joined by AND
Matches(p, o) ==
  /\ IsNull(o.feedId) \/ p.feed_id = o.feedId[1]
  /\ ~o.unreadOnly \/ p.is_read = 0
  /\ IsNull(o.since) \/ (~IsNull(p.published_at) /\ TextGE(p.published_at[1], o.since[1]))
  /\ IsNull(o.search)
       \/ p.id \in { e.rowid : e \in { x \in BagToSet(posts_fts) : FtsMatch(x, o.search[1]) } }

\* ORDER BY p.published_at ASC: null is the smallest value and comes first
SortsBefore_ascending(p, q) ==
  \/ IsNull(p.published_at) /\ ~IsNull(q.published_at)
  \/ ~IsNull(p.published_at) /\ ~IsNull(q.published_at)
       /\ ~TextGE(p.published_at[1], q.published_at[1])

\* ORDER BY p.published_at DESC NULLS LAST: p has to come before q
SortsBefore(p, q) ==
  \/ ~IsNull(p.published_at) /\ IsNull(q.published_at)
  \/ ~IsNull(p.published_at) /\ ~IsNull(q.published_at)
       /\ ~TextGE(q.published_at[1], p.published_at[1])

\* SELECT p.*, f.title as feed_title, f.url as feed_url ... JOIN feeds f
JoinFeed(p) ==
  LET f == CHOOSE g \in feeds : g.id = p.feed_id
  IN p @@ [feed_title |-> f.title, feed_url |-> f.url]

\* LIMIT ? OFFSET ?: a negative limit is no limit
Window(s, limit, offset) ==
  LET last == IF limit < 0 \/ offset + limit > Len(s) THEN Len(s) ELSE offset + limit
  IN SubSeq(s, offset + 1, last)

\* ORDER BY published_at DESC: the rows in every order in which no row comes
\* after one it sorts before
RECURSIVE Orders(_)
Orders(rows) ==
  IF rows = {} THEN { <<>> }
  ELSE UNION { { <<p>> \o t : t \in Orders(rows \ {p}) } :
               p \in { q \in rows : \A r \in rows : ~SortsBefore(r, q) } }

\* every answer the query can give: rows that tie are returned in any order
getPostsResults(o) ==
  LET hit == { p \in posts : Matches(p, o) /\ \E f \in feeds : f.id = p.feed_id }
  IN { Window([i \in DOMAIN s |-> JoinFeed(s[i])], o.limit, o.offset) : s \in Orders(hit) }

\* ---------------------------------------------------------- getPostContent
\* an article text is a sequence of pieces, each the characters lo+1..hi of
\* one source text; "" is the empty sequence
Piece(src, lo, hi) == [src |-> src, lo |-> lo, hi |-> hi]

\* content.length
RECURSIVE TextLen(_)
TextLen(text) ==
  IF text = <<>> THEN 0 ELSE (Head(text).hi - Head(text).lo) + TextLen(Tail(text))

\* content.slice(0, k)
RECURSIVE Slice(_, _)
Slice(text, k) ==
  IF k <= 0 \/ text = <<>> THEN <<>>
  ELSE LET h == Head(text)
           n == h.hi - h.lo
       IN IF n <= k THEN <<h>> \o Slice(Tail(text), k - n)
          ELSE << [h EXCEPT !.hi = h.lo + k] >>

MAX_CONTENT_LENGTH == 5000
TRUNCATION_MARKER == << Piece("TRUNCATION_MARKER", 0, 58) >>

\* the cut made from MAX_CONTENT_LENGTH on instead of above it
getPostContentOn_cutsAtCap(ps, fs, postId, full) ==
  LET hit == { p \in ps : p.id = postId /\ \E f \in fs : f.id = p.feed_id }
  IN IF hit = {} THEN NULL
     ELSE LET row == CHOOSE p \in hit : TRUE
              f == CHOOSE g \in fs : g.id = row.feed_id
              content == IF IsNull(row.content) THEN <<>> ELSE row.content[1]
              cut == ~full /\ TextLen(content) >= MAX_CONTENT_LENGTH
          IN Some([row EXCEPT !.content =
                       IF cut THEN Slice(content, MAX_CONTENT_LENGTH) \o TRUNCATION_MARKER
                       ELSE content]
                  @@ [feed_title |-> f.title, truncated |-> cut])

\* getPostContent on the posts ps and feeds fs: SELECT p.*, f.title as
\* feed_title FROM posts p JOIN feeds f ... WHERE p.id = ?, then the cut
getPostContentOn(ps, fs, postId, full) ==
  LET hit == { p \in ps : p.id = postId /\ \E f \in fs : f.id = p.feed_id }
  IN IF hit = {} THEN NULL
     ELSE LET row == CHOOSE p \in hit : TRUE
              f == CHOOSE g \in fs : g.id = row.feed_id
              content == IF IsNull(row.content) THEN <<>> ELSE row.content[1]
              cut == ~full /\ TextLen(content) > MAX_CONTENT_LENGTH
          IN Some([row EXCEPT !.content =
                       IF cut THEN Slice(content, MAX_CONTENT_LENGTH) \o TRUNCATION_MARKER
                       ELSE content]
                  @@ [feed_title |-> f.title, truncated |-> cut])

getPostContentResult(postId, full) == getPostContentOn(posts, feeds, postId, full)

\* --------------------------------------------------------------- fetchFeed
\* what the network can answer to the GET: no answer (failure or the 30 s
\* timeout), 304, a status that is not ok, or 200 with a body and validators
\* a date as a feed writes it: a text new Date() reads as an instant, a text
\* it cannot read (Invalid Date), or the empty text
DateText(instant) == [valid |-> TRUE, empty |-> FALSE, instant |-> instant]
InvalidDateText == [valid |-> FALSE, empty |-> FALSE, instant |-> 0]
EmptyDateText == [valid |-> FALSE, empty |-> TRUE, instant |-> 0]

Item(id, link, title, description, published) ==
  [id |-> id, link |-> link, title |-> title, description |-> description,
   content |-> NULL, author |-> NULL, published |-> published]

\* a body feedsmith cannot parse
NoBody == [wellFormed |-> FALSE, title |-> NULL, link |-> NULL, items |-> <<>>]

Docs ==
  { NoBody,
    [wellFormed |-> TRUE, title |-> Some("T"), link |-> Some("S"),
     items |-> << Item(Some("abc"), Some("u1"), Some("t1"), Some("s1"), Some(DateText(1000))),
                  Item(Some("abc"), NULL, Some("t2"), NULL, NULL) >>],
    [wellFormed |-> TRUE, title |-> NULL, link |-> NULL,
     items |-> << Item(NULL, NULL, Some("t1"), NULL, NULL) >>],
    [wellFormed |-> TRUE, title |-> Some("T"), link |-> NULL, items |-> <<>>] }

Validators == { <<NULL, NULL>>, <<Some("e1"), Some("m1")>> }

\* the answers with one of the given statuses, or 200 with one of the given
\* bodies and validator pairs
Answers(statuses, docs, validators) ==
  { [status |-> st, body |-> NoBody, etag |-> NULL, lastModified |-> NULL] : st \in statuses }
  \cup { [status |-> 200, body |-> d, etag |-> v[1], lastModified |-> v[2]]
         : d \in docs, v \in validators }

\* a 304 handed to the caller as a feed without entries
fetchFeedResult_notModifiedAsEmpty(resp) ==
  IF resp.status = 0
  THEN [err |-> "fetch failed", xml |-> NULL, etag |-> NULL, lastModified |-> NULL]
  ELSE IF resp.status = 304
  THEN [err |-> "", etag |-> NULL, lastModified |-> NULL,
        xml |-> Some([wellFormed |-> TRUE, title |-> NULL, link |-> NULL, items |-> <<>>])]
  ELSE IF ~(resp.status >= 200 /\ resp.status <= 299)
  THEN [err |-> "HTTP error", xml |-> NULL, etag |-> NULL, lastModified |-> NULL]
  ELSE [err |-> "", xml |-> Some(resp.body), etag |-> resp.etag,
        lastModified |-> resp.lastModified]

fetchFeedResult(resp) ==
  IF resp.status = 0
  THEN [err |-> "fetch failed", xml |-> NULL, etag |-> NULL, lastModified |-> NULL]
  ELSE IF resp.status = 304
  THEN [err |-> "", xml |-> NULL, etag |-> NULL, lastModified |-> NULL]
  ELSE IF ~(resp.status >= 200 /\ resp.status <= 299)
  THEN [err |-> "HTTP error", xml |-> NULL, etag |-> NULL, lastModified |-> NULL]
  ELSE [err |-> "", xml |-> Some(resp.body), etag |-> resp.etag,
        lastModified |-> resp.lastModified]

\* --------------------------------------------------------------- parseFeed
\* a ?? b
OrElse(a, b) == IF IsNull(a) THEN b ELSE a

\* a text is truthy unless it is missing or empty
TruthyDate(date) == ~IsNull(date) /\ ~date[1].empty

\* item.published ? new Date(item.published).toISOString() : undefined, for a
\* text new Date() can read
parseItem(item) ==
  [guid |-> OrElse(OrElse(item.id, item.link), Some(""))[1],
   title |-> item.title,
   url |-> item.link,
   summary |-> OrElse(item.description, item.content),
   author |-> item.author,
   published_at |-> IF TruthyDate(item.published)
                    THEN Some(toISOStringNow(item.published[1].instant))
                    ELSE NULL]

\* parseFeed of src/feeds.ts as given: toISOString() of an Invalid Date throws
\* RangeError inside items.map, and parseFeed with it
parseFeed(xml) ==
  IF ~xml.wellFormed
  THEN [err |-> "parse failed", title |-> NULL, siteUrl |-> NULL, entries |-> <<>>]
  ELSE IF \E i \in 1..Len(xml.items) :
            TruthyDate(xml.items[i].published) /\ ~xml.items[i].published[1].valid
  THEN [err |-> "RangeError: Invalid time value", title |-> NULL, siteUrl |-> NULL,
        entries |-> <<>>]
  ELSE [err |-> "", title |-> xml.title, siteUrl |-> xml.link,
        entries |-> [i \in 1..Len(xml.items) |-> parseItem(xml.items[i])]]

\* the other parseFeed given, which goes by the type feedsmith reports
\* toISOString(date): undefined for a missing, empty or unreadable text
toISOString(date) ==
  IF ~TruthyDate(date) THEN NULL
  ELSE IF ~date[1].valid THEN NULL
  ELSE Some(toISOStringNow(date[1].instant))

\* an item of a typed feed: date is pubDate (rss), published (atom) or
\* date_published (json); altDate is dc.date (rss, rdf), updated (atom) or
\* date_modified (json); an rdf item has no id
TypedItem(id, link, title, summary, date, altDate) ==
  [id |-> id, link |-> link, title |-> title, summary |-> summary, author |-> NULL,
   date |-> date, altDate |-> altDate]

extractEntry(type, item) ==
  [guid |-> IF type = "rdf" THEN OrElse(item.link, Some(""))[1]
            ELSE OrElse(OrElse(item.id, item.link), Some(""))[1],
   title |-> item.title,
   url |-> item.link,
   summary |-> item.summary,
   author |-> item.author,
   published_at |-> IF type = "rdf" THEN toISOString(item.altDate)
                    ELSE toISOString(OrElse(item.date, item.altDate))]

extractEntries(result) ==
  [i \in 1..Len(result.items) |-> extractEntry(result.type, result.items[i])]

parseFeedTyped(xml) ==
  IF ~xml.wellFormed
  THEN [err |-> "parse failed", title |-> NULL, siteUrl |-> NULL, entries |-> <<>>]
  ELSE [err |-> "", title |-> xml.title, siteUrl |-> xml.link, entries |-> extractEntries(xml)]

\* ------------------------------------------------------------ refresh_feeds
\* new Date("YYYY-MM-DD HH:MM:SS").getTime(): a text without a zone
\* designator is read as wall-clock time of the host's zone
DateParse(text, zone) == text * 1000 - zone

\* the rate-limit check of the loop
RateLimited(feed, runNow, zone) ==
  /\ ~IsNull(feed.last_fetched)
  /\ runNow - DateParse(feed.last_fetched[1], zone) < minInterval

\* db.listFeeds(): ORDER BY created_at DESC, rows of one second in either order
listFeeds ==
  { s \in [1..Cardinality(feeds) -> feeds] :
      /\ \A i \in DOMAIN s, j \in DOMAIN s : s[i] = s[j] => i = j
      /\ \A i \in DOMAIN s, j \in DOMAIN s : i < j => s[i].created_at >= s[j].created_at }

\* db.getFeed(feed_id), filtered by Boolean
getFeed(feedId) ==
  IF \E f \in feeds : f.id = feedId
  THEN << CHOOSE f \in feeds : f.id = feedId >>
  ELSE <<>>

\* an empty catch block
catchError_swallow(results, feed, message) == results

\* the catch block of the loop
catchError(results, feed, message) ==
  [results EXCEPT !.errors = Append(@, [feed_id |-> feed.id, url |-> feed.url, error |-> message])]

\* the try block after the fetch has answered: parse, commit, count
processResponse(results, feed, resp, t) ==
  LET keep == [posts |-> posts, fts |-> posts_fts, seq |-> sqlite_sequence.posts, feeds |-> feeds]
      fr == fetchFeedResult(resp)
      pf == parseFeed(fr.xml[1])
      up == upsertPostsResult(posts, posts_fts, sqlite_sequence.posts, feeds, feed.id, pf.entries, t)
  IN IF fr.err # ""
     THEN [store |-> keep, results |-> catchError(results, feed, fr.err),
           outcome |-> "error", message |-> fr.err]
     ELSE IF IsNull(fr.xml)
     THEN [store |-> keep, results |-> [results EXCEPT !.skipped = @ + 1],
           outcome |-> "not_modified", message |-> ""]
     ELSE IF pf.err # ""
     THEN [store |-> keep, results |-> catchError(results, feed, pf.err),
           outcome |-> "error", message |-> pf.err]
     ELSE IF up.err # ""
     THEN [store |-> keep, results |-> catchError(results, feed, up.err),
           outcome |-> "error", message |-> up.err]
     ELSE [store |-> [posts |-> up.posts, fts |-> up.fts, seq |-> up.seq,
                      feeds |-> updateFeedMetaResult(feeds, feed.id, pf.title, pf.siteUrl,
                                                     fr.etag, fr.lastModified, t)],
           results |-> [results EXCEPT !.refreshed = @ + 1, !.new_posts = @ + up.count],
           outcome |-> "refreshed", message |-> ""]

NoRun == [feeds |-> <<>>, now |-> 0, i |-> 1,
          results |-> [refreshed |-> 0, new_posts |-> 0, skipped |-> 0, errors |-> <<>>],
          trace |-> <<>>, seq_before |-> 0]

\* no get_post_content call made yet
NoReader == [pc |-> "idle", post_id |-> 0, full |-> FALSE, fetched |-> FALSE,
             extracted |-> NULL, response |-> NULL]

\* no get_popular_posts call made yet
NoPopular == [pc |-> "idle", posts |-> <<>>, limit |-> 0, i |-> 1, pending |-> {},
              replies |-> <<>>, results |-> <<>>, response |-> NULL]

\* the call last made on the store: its name, arguments, returned value, the
\* error it threw ("" when it returned), and whether it repeats the call before it
Op(op, arg, ret, err) ==
  [op |-> op, arg |-> arg, ret |-> ret, err |-> err,
   again |-> (lastOp.op = op /\ lastOp.arg = arg /\ lastOp.err = "")]

Init ==
  /\ feeds = {}
  /\ posts = {}
  /\ posts_fts = EmptyBag
  /\ sqlite_sequence = [feeds |-> 0, posts |-> 0]
  /\ now = StartTime
  /\ ticks = 0
  /\ tz \in TZOffsets
  /\ lastOp = Opened
  /\ pc = "idle"
  /\ run = NoRun
  /\ lastRun = NULL
  /\ reader = NoReader
  /\ popular = NoPopular

\* ------------------------------------------------- storage engine calls
AddFeed(url, title, siteUrl) ==
  LET r == addFeedResult(url, title, siteUrl)
  IN /\ r.seq <= MaxFeedSeq
     /\ feeds' = r.feeds
     /\ sqlite_sequence' = [sqlite_sequence EXCEPT !.feeds = r.seq]
     /\ lastOp' = Op("addFeed", <<url, title, siteUrl>>, r.ret, r.err)
     /\ UNCHANGED <<posts, posts_fts, clockVars, runVars>>

RemoveFeed(feedId) ==
  LET r == removeFeedResult(feedId)
  IN /\ feeds' = r.feeds
     /\ posts' = r.posts
     /\ posts_fts' = r.fts
     /\ lastOp' = Op("removeFeed", <<feedId>>, r.ret, "")
     /\ UNCHANGED <<sqlite_sequence, clockVars, runVars>>

UpdateFeedMeta(feedId, title, siteUrl, etag, lastModified) ==
  /\ feeds' = updateFeedMetaResult(feeds, feedId, title, siteUrl, etag, lastModified, now)
  /\ lastOp' = Op("updateFeedMeta", <<feedId, title, siteUrl, etag, lastModified>>, <<>>, "")
  /\ UNCHANGED <<posts, posts_fts, sqlite_sequence, clockVars, runVars>>

\* upsertPosts while the posts counter stays within maxSeq
UpsertPostsUpTo(maxSeq, feedId, entries) ==
  LET r == upsertPostsResult(posts, posts_fts, sqlite_sequence.posts, feeds, feedId, entries, now)
  IN /\ sqlite_sequence.posts + Len(entries) <= maxSeq
     /\ posts' = r.posts
     /\ posts_fts' = r.fts
     /\ sqlite_sequence' = [sqlite_sequence EXCEPT !.posts = r.seq]
     /\ lastOp' = Op("upsertPosts", <<feedId, entries>>, r.count, r.err)
     /\ UNCHANGED <<feeds, clockVars, runVars>>

UpsertPosts(feedId, entries) == UpsertPostsUpTo(MaxPostSeq, feedId, entries)

\* an upsertPosts call whose k-th statement the engine fails; lastOp keeps k
\* after the arguments
UpsertPostsInterrupted(feedId, entries, k) ==
  LET r == upsertPostsInterrupted(posts, posts_fts, sqlite_sequence.posts, feeds, feedId,
                                  entries, k, now)
  IN /\ posts' = r.posts
     /\ posts_fts' = r.fts
     /\ sqlite_sequence' = [sqlite_sequence EXCEPT !.posts = r.seq]
     /\ lastOp' = Op("upsertPosts", <<feedId, entries, k>>, r.count, r.err)
     /\ UNCHANGED <<feeds, clockVars, runVars>>

MarkRead(postIds) ==
  LET r == markReadResult(postIds)
  IN /\ posts' = r.posts
     /\ posts_fts' = r.fts
     /\ lastOp' = Op("markRead", <<postIds>>, r.ret, "")
     /\ UNCHANGED <<feeds, sqlite_sequence, clockVars, runVars>>

MarkUnread(postIds) ==
  LET r == markUnreadResult(postIds)
  IN /\ posts' = r.posts
     /\ posts_fts' = r.fts
     /\ lastOp' = Op("markUnread", <<postIds>>, r.ret, "")
     /\ UNCHANGED <<feeds, sqlite_sequence, clockVars, runVars>>

UpdatePostContent(postId, content) ==
  LET r == updatePostContentResult(postId, content)
  IN /\ posts' = r.posts
     /\ posts_fts' = r.fts
     /\ lastOp' = Op("updatePostContent", <<postId, content>>, <<>>, "")
     /\ UNCHANGED <<feeds, sqlite_sequence, clockVars, runVars>>

GetPosts(options) ==
  /\ \E r \in getPostsResults(options) : lastOp' = Op("getPosts", <<options>>, r, "")
  /\ UNCHANGED <<storeVars, clockVars, runVars>>

FeedIdArgs == 1..MaxFeedSeq
PostIdArgs == 1..MaxPostSeq

\* ------------------------------------------------------------ tool handlers
\* a handler runs to its next await: another tool call can only start while
\* no handler runs or while refresh_feeds waits for fetchFeed
Interleavable == pc \in {"idle", "fetching"}

Tick(d) ==
  /\ Interleavable
  /\ ticks < MaxTicks
  /\ now' = now + d
  /\ ticks' = ticks + 1
  /\ lastOp' = Op("tick", <<>>, <<>>, "")
  /\ UNCHANGED <<storeVars, tz, runVars>>

add_feed(url) ==
  /\ Interleavable
  /\ AddFeed(url, NULL, NULL)

remove_feed(feedId) ==
  /\ Interleavable
  /\ RemoveFeed(feedId)

\* a url that JavaScript takes for true: not null and not ""
TruthyUrl(o) == ~IsNull(o) /\ o[1] # ""

\* an article text that JavaScript takes for true: not null and not ""
TruthyText(o) == ~IsNull(o) /\ o[1] # <<>>

\* what fetchAndExtract can answer: null (no answer, a status that is not ok,
\* nothing extracted), "", or the article text
Extracted ==
  { NULL, Some(<<>>), Some(<< Piece("a", 0, 2) >>),
    Some(<< Piece("a", 0, MAX_CONTENT_LENGTH) >>),
    Some(<< Piece("a", 0, MAX_CONTENT_LENGTH + 1) >>),
    Some(<< Piece("a", 0, 4000), Piece("b", 0, 2000) >>) }

\* the article requested whenever the post has a url
get_post_content_refetches(post_id, full) ==
  LET result == getPostContentResult(post_id, full)
      call == [pc |-> "idle", post_id |-> post_id, full |-> full, fetched |-> FALSE,
               extracted |-> NULL, response |-> result]
  IN /\ reader.pc = "idle"
     /\ lastOp' = Op("getPostContent", <<post_id, full>>, result, "")
     /\ reader' = IF IsNull(result)
                   THEN [call EXCEPT !.response = Some([error |-> "not found"])]
                   ELSE IF TruthyUrl(result[1].url)
                   THEN [call EXCEPT !.pc = "extracting", !.fetched = TRUE]
                   ELSE call
     /\ UNCHANGED <<storeVars, clockVars, pc, run, lastRun, popular>>

\* get_post_content up to its await: the post is read; without content and
\* with a url the article is requested, else the handler returns at once
get_post_content(post_id, full) ==
  LET result == getPostContentResult(post_id, full)
      call == [pc |-> "idle", post_id |-> post_id, full |-> full, fetched |-> FALSE,
               extracted |-> NULL, response |-> result]
  IN /\ reader.pc = "idle"
     /\ lastOp' = Op("getPostContent", <<post_id, full>>, result, "")
     /\ reader' = IF IsNull(result)
                   THEN [call EXCEPT !.response = Some([error |-> "not found"])]
                   ELSE IF result[1].content = <<>> /\ TruthyUrl(result[1].url)
                   THEN [call EXCEPT !.pc = "extracting", !.fetched = TRUE]
                   ELSE call
     /\ UNCHANGED <<storeVars, clockVars, pc, run, lastRun, popular>>

\* await fetchAndExtract(result.url) answers: a text that is not empty is
\* stored and the post read again; null or "" leaves the first result
ExtractReturn(extractedContent) ==
  LET r == updatePostContentResult(reader.post_id, extractedContent[1])
      again == getPostContentOn(r.posts, feeds, reader.post_id, reader.full)
  IN /\ reader.pc = "extracting"
     /\ IF TruthyText(extractedContent)
        THEN /\ posts' = r.posts
             /\ posts_fts' = r.fts
             /\ lastOp' = Op("getPostContent", <<reader.post_id, reader.full>>, again, "")
             /\ reader' = [reader EXCEPT !.pc = "idle", !.extracted = extractedContent,
                                          !.response = again]
        ELSE /\ UNCHANGED <<posts, posts_fts, lastOp>>
             /\ reader' = [reader EXCEPT !.pc = "idle", !.extracted = extractedContent]
     /\ UNCHANGED <<feeds, sqlite_sequence, clockVars, pc, run, lastRun, popular>>

\* ----------------------------------------------------------- getDailyDigest
\* row.summary cut to maxSummaryLength and "..." when it is longer; a text is
\* written as its pieces
digestSummary(summary, maxSummaryLength) ==
  IF IsNull(summary) THEN NULL
  ELSE IF summary[1] # "" /\ Len(summary[1]) > maxSummaryLength
  THEN LET n == IF maxSummaryLength >= 0 THEN maxSummaryLength
                ELSE IF Len(summary[1]) + maxSummaryLength > 0
                     THEN Len(summary[1]) + maxSummaryLength ELSE 0
       IN Some(<< Piece(summary[1], 0, n), Piece("...", 0, 3) >>)
  ELSE Some(<< Piece(summary[1], 0, Len(summary[1])) >>)

DigestPost(p, maxSummaryLength) ==
  LET f == CHOOSE f \in feeds : f.id = p.feed_id
  IN [id |-> p.id, feed |-> f.title, title |-> p.title,
      summary |-> digestSummary(p.summary, maxSummaryLength),
      url |-> p.url, published_at |-> p.published_at]

\* every answer getDailyDigest can give: rows of one date in any order
getDailyDigestResults(hours, maxSummaryLength) ==
  LET cutoff == toISOStringNow(now - hours * 60 * 60 * 1000)
      hit == { p \in posts : /\ ~IsNull(p.published_at)
                              /\ TextGE(p.published_at[1], cutoff)
                              /\ \E f \in feeds : f.id = p.feed_id }
  IN { [i \in DOMAIN s |-> DigestPost(s[i], maxSummaryLength)] : s \in Orders(hit) }

\* get_daily_digest: the digest and the number of distinct values of feed
\* among its posts (new Set(posts.map(p => p.feed)).size)
get_daily_digest(hours, max_summary_length) ==
  \E ps \in getDailyDigestResults(hours, max_summary_length) :
    /\ lastOp' = Op("get_daily_digest", <<hours, max_summary_length>>,
                    [total_posts |-> Len(ps),
                     feeds |-> Cardinality({ ps[i].feed : i \in DOMAIN ps }),
                     posts |-> ps], "")
    /\ UNCHANGED <<storeVars, clockVars, runVars>>

\* ------------------------------------------------------------- fetchHNScore
\* what the search service can answer: no answer (failure or the 10 s
\* timeout), a status that is not ok, no hit, or a hit
HNReply(failed, ok, hits) == [failed |-> failed, ok |-> ok, hits |-> hits]

HNReplies ==
  { HNReply(TRUE, FALSE, <<>>),
    HNReply(FALSE, TRUE, <<>>),
    HNReply(FALSE, TRUE, << [points |-> NULL, num_comments |-> NULL, objectID |-> "1"] >>),
    HNReply(FALSE, TRUE, << [points |-> Some(7), num_comments |-> Some(2), objectID |-> "2"] >>) }

\* fetchHNScore without its try/catch: a failed request is thrown on
fetchHNScoreResult_withoutCatch(reply) ==
  IF reply.failed THEN [threw |-> TRUE, value |-> NULL]
  ELSE IF ~reply.ok \/ reply.hits = <<>> THEN [threw |-> FALSE, value |-> NULL]
  ELSE [threw |-> FALSE,
        value |-> Some([score |-> OrElse(reply.hits[1].points, Some(0))[1],
                        comments |-> OrElse(reply.hits[1].num_comments, Some(0))[1],
                        hn_url |-> <<"https://news.ycombinator.com/item?id=", reply.hits[1].objectID>>])]

\* fetchHNScore: every failure is caught and answered by null
fetchHNScoreResult(reply) ==
  IF reply.failed THEN [threw |-> FALSE, value |-> NULL]
  ELSE IF ~reply.ok \/ reply.hits = <<>> THEN [threw |-> FALSE, value |-> NULL]
  ELSE [threw |-> FALSE,
        value |-> Some([score |-> OrElse(reply.hits[1].points, Some(0))[1],
                        comments |-> OrElse(reply.hits[1].num_comments, Some(0))[1],
                        hn_url |-> <<"https://news.ycombinator.com/item?id=", reply.hits[1].objectID>>])]

\* ------------------------------------------------------- get_popular_posts
ChunkSize == 5

\* every post looked up in one Promise.all
Chunk_whole(n, i) == i..n

\* the places in posts of posts.slice(i, i + 5), counted from 1
Chunk(n, i) == i..(IF i + ChunkSize - 1 > n THEN n ELSE i + ChunkSize - 1)

\* the lookups chunk.map starts: one for every post of the chunk with a url
Lookups(ps, i) == { j \in Chunk(Len(ps), i) : TruthyUrl(ps[j].url) }

\* what the async callback of chunk.map returns for a post
lookupEntry(post, replies, j) ==
  IF j \notin DOMAIN replies \/ IsNull(fetchHNScoreResult(replies[j]).value) THEN NULL
  ELSE LET hn == fetchHNScoreResult(replies[j]).value[1]
       IN Some([id |-> post.id, feed |-> OrElse(post.feed_title, Some(""))[1],
                title |-> post.title, url |-> post.url, published_at |-> post.published_at,
                hn_score |-> hn.score, hn_comments |-> hn.comments, hn_url |-> hn.hn_url])

\* chunkResults.filter(r => r !== null) for the places j..last
RECURSIVE chunkResults(_, _, _, _)
chunkResults(ps, replies, j, last) ==
  IF j > last THEN <<>>
  ELSE lookupEntry(ps[j], replies, j) \o chunkResults(ps, replies, j + 1, last)

\* results.sort((a, b) => b.hn_score - a.hn_score): stable
RECURSIVE sortByScore(_)
sortByScore(s) ==
  IF s = <<>> THEN <<>>
  ELSE LET k == CHOOSE i \in 1..Len(s) :
                  /\ \A j \in 1..Len(s) : s[j].hn_score <= s[i].hn_score
                  /\ \A j \in 1..(i - 1) : s[j].hn_score < s[i].hn_score
       IN <<s[k]>> \o sortByScore(SubSeq(s, 1, k - 1) \o SubSeq(s, k + 1, Len(s)))

\* .slice(0, limit)
sliceTo(s, limit) ==
  LET n == IF limit >= 0 THEN limit ELSE Len(s) + limit
  IN SubSeq(s, 1, IF n > Len(s) THEN Len(s) ELSE n)

\* get_popular_posts up to its first await: the pool is read and the lookups
\* of the first chunk are started; an empty pool is answered at once
get_popular_posts(days, limit) ==
  LET options == [feedId |-> NULL, limit |-> 500, offset |-> 0, unreadOnly |-> FALSE,
                  search |-> NULL, since |-> Some(now - days * 24 * 60 * 60 * 1000)]
  IN /\ popular.pc = "idle"
     /\ \E ps \in getPostsResults(options) :
          /\ lastOp' = Op("getPosts", <<options>>, ps, "")
          /\ popular' = IF ps = <<>>
                        THEN [NoPopular EXCEPT !.limit = limit,
                                               !.response = Some([total_checked |-> 0,
                                                                  posts |-> <<>>])]
                        ELSE [pc |-> "awaiting", posts |-> ps, limit |-> limit, i |-> 1,
                              pending |-> Lookups(ps, 1), replies |-> <<>>,
                              results |-> <<>>, response |-> NULL]
     /\ UNCHANGED <<storeVars, clockVars, pc, run, lastRun, reader>>

\* one fetchHNScore of the chunk answers
LookupReturn(j, reply) ==
  /\ popular.pc = "awaiting"
  /\ j \in popular.pending
  /\ popular' = [popular EXCEPT !.pending = @ \ {j}, !.replies = @ @@ (j :> reply)]
  /\ UNCHANGED <<storeVars, clockVars, lastOp, pc, run, lastRun, reader>>

\* Promise.all of the chunk is settled: its results are pushed; then the
\* lookups of the next chunk are started, or the ranking is returned
ChunkResume ==
  LET ps == popular.posts
      last == CHOOSE m \in Chunk(Len(ps), popular.i) : \A j \in Chunk(Len(ps), popular.i) : j <= m
      threw == \E j \in DOMAIN popular.replies : fetchHNScoreResult(popular.replies[j]).threw
      results == popular.results \o chunkResults(ps, popular.replies, popular.i, last)
      next == popular.i + ChunkSize
  IN /\ popular.pc = "awaiting"
     /\ popular.pending = {}
     /\ popular' =
          IF threw
          THEN [popular EXCEPT !.pc = "idle", !.response = Some([error |-> "lookup failed"])]
          ELSE IF next <= Len(ps)
          THEN [popular EXCEPT !.i = next, !.results = results, !.pending = Lookups(ps, next)]
          ELSE [popular EXCEPT !.pc = "idle", !.i = next, !.results = results,
                               !.response = Some([total_checked |-> Len(ps),
                                                  posts |-> sliceTo(sortByScore(results),
                                                                    popular.limit)])]
     /\ UNCHANGED <<storeVars, clockVars, lastOp, pc, run, lastRun, reader>>

\* refresh_feeds up to its loop: the feeds are read once, now is taken once
RefreshStart(feed_id) ==
  /\ pc = "idle"
  /\ \E fs \in (IF IsNull(feed_id) THEN listFeeds ELSE {getFeed(feed_id[1])}) :
       run' = [feeds |-> fs, now |-> now, i |-> 1,
               results |-> [refreshed |-> 0, new_posts |-> 0, skipped |-> 0, errors |-> <<>>],
               trace |-> <<>>, seq_before |-> sqlite_sequence.posts]
  /\ pc' = "loop"
  /\ lastOp' = Op("refresh_feeds", <<>>, <<>>, "")
  /\ UNCHANGED <<storeVars, clockVars, lastRun, toolVars>>

\* one feed skipped by the rate limit
RefreshSkip ==
  /\ pc = "loop"
  /\ run.i <= Len(run.feeds)
  /\ RateLimited(run.feeds[run.i], run.now, tz)
  /\ run' = [run EXCEPT !.i = @ + 1,
                         !.results.skipped = @ + 1,
                         !.trace = Append(@, [feed_id |-> run.feeds[run.i].id,
                                              outcome |-> "rate_limited", fetched |-> FALSE,
                                              status |-> NULL, etag |-> NULL,
                                              last_modified |-> NULL, message |-> ""])]
  /\ UNCHANGED <<storeVars, clockVars, lastOp, pc, lastRun, toolVars>>

\* await fetchFeed(feed.url, feed.etag, feed.last_modified): the request leaves
RefreshFetch ==
  /\ pc = "loop"
  /\ run.i <= Len(run.feeds)
  /\ ~RateLimited(run.feeds[run.i], run.now, tz)
  /\ pc' = "fetching"
  /\ UNCHANGED <<storeVars, clockVars, lastOp, run, lastRun, toolVars>>

\* the fetch answers and the loop body runs to its end
FetchReturn(resp) ==
  LET feed == run.feeds[run.i]
      r == processResponse(run.results, feed, resp, now)
  IN /\ pc = "fetching"
     /\ sqlite_sequence.posts + (IF resp.status = 200 THEN Len(resp.body.items) ELSE 0) <= MaxPostSeq
     /\ posts' = r.store.posts
     /\ posts_fts' = r.store.fts
     /\ sqlite_sequence' = [sqlite_sequence EXCEPT !.posts = r.store.seq]
     /\ feeds' = r.store.feeds
     /\ run' = [run EXCEPT !.i = @ + 1,
                            !.results = r.results,
                            !.trace = Append(@, [feed_id |-> feed.id,
                                                 outcome |-> r.outcome, fetched |-> TRUE,
                                                 status |-> Some(resp.status),
                                                 etag |-> resp.etag,
                                                 last_modified |-> resp.lastModified,
                                                 message |-> r.message])]
     /\ pc' = "loop"
     /\ lastOp' = Op("refresh_feeds", <<>>, <<>>, "")
     /\ UNCHANGED <<clockVars, lastRun, toolVars>>

\* the loop is over: the handler returns results; lastRun keeps when the run
\* started and which feeds it refreshed
RefreshReturn ==
  /\ pc = "loop"
  /\ run.i > Len(run.feeds)
  /\ lastRun' = Some([start |-> run.now,
                      refreshed |-> { run.trace[j].feed_id :
                                        j \in { k \in 1..Len(run.trace) :
                                                  run.trace[k].outcome = "refreshed" } }])
  /\ run' = NoRun
  /\ pc' = "idle"
  /\ UNCHANGED <<storeVars, clockVars, lastOp, toolVars>>

\* refresh_feeds with subscriptions made and removed while it waits
NextRefresh ==
  \/ \E u \in Urls : add_feed(u)
  \/ \E f \in FeedIdArgs : remove_feed(f)
  \/ \E sel \in {NULL} \cup { Some(f) : f \in FeedIdArgs } : RefreshStart(sel)
  \/ RefreshSkip
  \/ RefreshFetch
  \/ \E resp \in Answers({0, 304, 500}, Docs, {<<Some("e1"), Some("m1")>>}) : FetchReturn(resp)
  \/ RefreshReturn

SpecRefresh == Init /\ [][NextRefresh]_vars

\* refresh_feeds runs of one subscription as the host clock advances
NextClock ==
  \/ \E d \in TickSteps : Tick(d)
  \/ add_feed("https://x.com/feed")
  \/ \E sel \in {NULL, Some(1)} : RefreshStart(sel)
  \/ RefreshSkip
  \/ RefreshFetch
  \/ \E resp \in Answers({304, 500}, Docs, Validators) : FetchReturn(resp)
  \/ RefreshReturn

SpecClock == Init /\ [][NextClock]_vars

Next ==
  \/ \E u \in Urls : AddFeed(u, NULL, NULL)
  \/ \E f \in FeedIdArgs : RemoveFeed(f)
  \/ \E f \in FeedIdArgs, es \in Batches : UpsertPosts(f, es)
  \/ \E ids \in SUBSET PostIdArgs : MarkRead(ids)
  \/ \E ids \in SUBSET PostIdArgs : MarkUnread(ids)
  \/ \E p \in PostIdArgs, c \in Contents : UpdatePostContent(p, c)

\* db.ts never reads the host time zone: the storage engine is explored under UTC
InitStore == Init /\ tz = 0

Spec == InitStore /\ [][Next]_vars

\* ------------------------------------------------- the store being queried
QueryPostSeq == MaxPostSeq + 1

QueryEntries ==
  { [guid |-> "g1", title |-> Some("t1"), url |-> Some("u1"), summary |-> Some("s1"),
     author |-> NULL, published_at |-> Some(2000)],
    [guid |-> "g2", title |-> Some("t2"), url |-> NULL, summary |-> Some("w"),
     author |-> NULL, published_at |-> Some(1000)],
    [guid |-> "g3", title |-> Some("w"), url |-> Some("u3"), summary |-> NULL,
     author |-> NULL, published_at |-> NULL] }

GetPostsOptions ==
  { [feedId |-> f, limit |-> w[1], offset |-> w[2], unreadOnly |-> u, search |-> q, since |-> t] :
      f \in {NULL, Some(1)}, w \in {<<50, 0>>, <<1, 1>>}, u \in BOOLEAN,
      q \in {NULL, Some("w")}, t \in {NULL, Some(1000 + 500)} }

\* a query changes nothing stored: one query is asked after a storage call,
\* a second one in a row would see the same store
NextQuery ==
  \/ \E u \in Urls : AddFeed(u, NULL, NULL)
  \/ \E f \in FeedIdArgs, e \in QueryEntries : UpsertPostsUpTo(QueryPostSeq, f, <<e>>)
  \/ MarkRead({2})
  \/ UpdatePostContent(1, "w")
  \/ \E o \in GetPostsOptions : lastOp.op # "getPosts" /\ GetPosts(o)

SpecQuery == InitStore /\ [][NextQuery]_vars

\* ------------------------------------------ feeds imported and their metadata
\* title and htmlUrl of an OPML outline, as import_opml hands them to addFeed
OpmlTitles == {NULL, Some("T0")}
OpmlSiteUrls == {NULL, Some("S0")}

NextMeta ==
  \/ \E u \in Urls, t \in OpmlTitles, h \in OpmlSiteUrls : AddFeed(u, t, h)
  \/ \E f \in FeedIdArgs, t \in FeedTitles, h \in SiteUrls, e \in Etags, m \in LastModifieds :
       UpdateFeedMeta(f, t, h, e, m)

SpecMeta == InitStore /\ [][NextMeta]_vars

\* ------------------------------- validators written directly and by a run
NextValidators ==
  \/ add_feed("https://x.com/feed")
  \/ Tick(60 * 60 * 1000)
  \/ \E e \in Etags, m \in LastModifieds : UpdateFeedMeta(1, NULL, NULL, e, m)
  \/ RefreshStart(NULL)
  \/ RefreshSkip
  \/ RefreshFetch
  \/ \E resp \in Answers({304}, Docs, Validators) : FetchReturn(resp)
  \/ RefreshReturn

SpecValidators == InitStore /\ [][NextValidators]_vars

\* -------------------------------------------------- batches that fail
NextAtomic ==
  \/ \E u \in Urls : AddFeed(u, NULL, NULL)
  \/ \E f \in FeedIdArgs : RemoveFeed(f)
  \/ \E f \in FeedIdArgs, es \in Batches : UpsertPosts(f, es)
  \/ \E f \in FeedIdArgs, es \in Batches, k \in 1..MaxBatch :
       k <= Len(es) /\ UpsertPostsInterrupted(f, es, k)

SpecAtomic == InitStore /\ [][NextAtomic]_vars

\* ------------------------------------------------------ documents parsed
DateTexts == {NULL, Some(EmptyDateText), Some(InvalidDateText), Some(DateText(1000))}

DatedItems == { Item(Some("abc"), NULL, Some("t1"), NULL, d) : d \in DateTexts }

DatedDocs ==
  { NoBody }
  \cup { [wellFormed |-> TRUE, title |-> Some("T"), link |-> NULL, items |-> its]
         : its \in UNION { [1..n -> DatedItems] : n \in 1..MaxBatch } }

TypedItems ==
  { TypedItem(Some("abc"), NULL, Some("t1"), NULL, d, a) : d \in DateTexts, a \in DateTexts }

TypedDocs ==
  { [type |-> type, wellFormed |-> TRUE, title |-> Some("T"), link |-> NULL, items |-> its]
    : type \in {"rss", "atom", "json", "rdf"},
      its \in UNION { [1..n -> TypedItems] : n \in 1..MaxBatch } }

\* parseFeed called on a document, by either of the two parseFeed given
ParseFeed(xml) ==
  LET r == parseFeed(xml)
  IN /\ lastOp' = Op("parseFeed", <<xml>>, r.entries, r.err)
     /\ UNCHANGED <<storeVars, clockVars, runVars>>

ParseFeedTyped(xml) ==
  LET r == parseFeedTyped(xml)
  IN /\ lastOp' = Op("parseFeed", <<xml>>, r.entries, r.err)
     /\ UNCHANGED <<storeVars, clockVars, runVars>>

\* one document parsed after the process has started
NextParse ==
  /\ lastOp = Opened
  /\ \/ \E xml \in DatedDocs : ParseFeed(xml)
     \/ \E xml \in TypedDocs : ParseFeedTyped(xml)

SpecParse == InitStore /\ [][NextParse]_vars

\* C26: parsing a document feedsmith can read does not fail, and every entry
\* gets no published_at when its date is missing, empty or unreadable, and
\* the absolute-time text of its date otherwise
C26_PublishedAtNormalized ==
  lastOp.op = "parseFeed" =>
    LET xml == lastOp.arg[1]
        DateOf(item) == IF "published" \in DOMAIN item THEN item.published
                        ELSE IF xml.type = "rdf" THEN item.altDate
                        ELSE IF IsNull(item.date) THEN item.altDate ELSE item.date
    IN xml.wellFormed =>
         /\ lastOp.err = ""
         /\ Len(lastOp.ret) = Len(xml.items)
         /\ \A i \in 1..Len(xml.items) :
              lastOp.ret[i].published_at =
                IF IsNull(DateOf(xml.items[i])) \/ ~DateOf(xml.items[i])[1].valid THEN NULL
                ELSE Some(DateOf(xml.items[i])[1].instant)

\* ------------------------------------------------------------- the digest
NextDigest ==
  \/ \E u \in Urls, t \in FeedTitles : AddFeed(u, t, NULL)
  \/ \E f \in FeedIdArgs, es \in Batches : UpsertPosts(f, es)
  \/ \E hours \in {0, 24}, m \in {1, 300} : get_daily_digest(hours, m)

SpecDigest == InitStore /\ [][NextDigest]_vars

\* C21: the feed count of a digest is the number of distinct feeds that own
\* a post of the digest
C21_FeedCountIsDistinctFeeds ==
  lastOp.op = "get_daily_digest" =>
    lastOp.ret.feeds =
      Cardinality({ p.feed_id : p \in { q \in posts :
                      \E i \in DOMAIN lastOp.ret.posts : lastOp.ret.posts[i].id = q.id } })

\* ------------------------------------------------------ the popularity view
PopularPostSeq == ChunkSize + MaxPostSeq

\* the k-th item of a feed, the first one without a link
PopularEntry(k) ==
  [guid |-> ToString(k), title |-> Some(ToString(k)),
   url |-> IF k = 1 THEN NULL ELSE Some(ToString(k)), summary |-> NULL,
   author |-> NULL, published_at |-> Some(1000 * k)]

PopularBatches == { [k \in 1..n |-> PopularEntry(k)] : n \in {MaxPostSeq, PopularPostSeq} }

NextPopular ==
  \/ add_feed("https://x.com/feed")
  \/ \E b \in PopularBatches : UpsertPostsUpTo(PopularPostSeq, 1, b)
  \/ \E limit \in {0, 2, 10} : get_popular_posts(7, limit)
  \/ \E j \in 1..PopularPostSeq, reply \in HNReplies : LookupReturn(j, reply)
  \/ ChunkResume

SpecPopular == InitStore /\ [][NextPopular]_vars

\* C18: while get_popular_posts runs, at most 5 score lookups are in flight,
\* all of them of one batch, and lookups are started only when none of an
\* earlier batch is still in flight
C18_BoundedLookups ==
  [][ /\ Cardinality(popular'.pending) <= 5
      /\ \A a \in popular'.pending, b \in popular'.pending : (a - 1) \div 5 = (b - 1) \div 5
      /\ popular'.pending \ popular.pending # {} => popular.pending = {} ]_vars

C18_Witness ==
  /\ popular.pc = "awaiting"
  /\ popular.i > 1
  /\ popular.pending # {}
  /\ Cardinality(DOMAIN popular.replies) = 5

\* C19: the answer of get_popular_posts is a ranking, never an error: at
\* most limit posts, by score descending, each a post of the pool with a url
\* whose lookup answered a hit, carrying that hit's score; a post whose
\* lookup failed or found nothing is absent, and a scored post is absent only
\* when limit posts scoring at least as much are returned
C19_RankedScoredPosts ==
  ~IsNull(popular.response) =>
    LET ps == popular.posts
        r == popular.response[1]
        scored == { j \in DOMAIN popular.replies :
                      /\ TruthyUrl(ps[j].url)
                      /\ ~popular.replies[j].failed
                      /\ popular.replies[j].ok
                      /\ popular.replies[j].hits # <<>> }
        ScoreOf(j) == IF IsNull(popular.replies[j].hits[1].points) THEN 0
                      ELSE popular.replies[j].hits[1].points[1]
    IN /\ "posts" \in DOMAIN r
       /\ Len(r.posts) <= popular.limit
       /\ \A a \in DOMAIN r.posts, b \in DOMAIN r.posts :
            /\ a < b => r.posts[a].hn_score >= r.posts[b].hn_score
            /\ a # b => r.posts[a].id # r.posts[b].id
       /\ \A a \in DOMAIN r.posts :
            \E j \in scored : /\ r.posts[a].id = ps[j].id
                              /\ r.posts[a].hn_score = ScoreOf(j)
       /\ \A j \in scored :
            \/ \E a \in DOMAIN r.posts : r.posts[a].id = ps[j].id
            \/ /\ Len(r.posts) = popular.limit
               /\ \A a \in DOMAIN r.posts : r.posts[a].hn_score >= ScoreOf(j)

C19_Witness ==
  /\ ~IsNull(popular.response)
  /\ "posts" \in DOMAIN popular.response[1]
  /\ Len(popular.response[1].posts) = 2
  /\ Len(popular.posts) > 5
  /\ \E j \in DOMAIN popular.replies : popular.replies[j].failed
  /\ \E j \in DOMAIN popular.replies :
       ~popular.replies[j].failed /\ popular.replies[j].hits = <<>>
  /\ Cardinality({ j \in DOMAIN popular.replies : popular.replies[j].hits # <<>> }) > 2

\* ------------------------------------------------- articles read and cached
NextContent ==
  \/ add_feed("https://x.com/feed")
  \/ \E e \in EntryPool : UpsertPosts(1, <<e>>)
  \/ remove_feed(1)
  \/ \E p \in PostIdArgs, full \in BOOLEAN : get_post_content(p, full)
  \/ \E x \in Extracted : ExtractReturn(x)

SpecContent == InitStore /\ [][NextContent]_vars

\* ======================================================== storage claims
\* C1: no two stored posts share the same (feed_id, guid) pair, and after an
\* upsertPosts batch every guid of the batch, the empty guid included, is
\* held by exactly one post of the feed even when the batch repeats it.
C1_UniqueFeedGuid ==
  /\ \A p \in posts, q \in posts : (p.feed_id = q.feed_id /\ p.guid = q.guid) => p = q
  /\ (lastOp.op = "upsertPosts" /\ lastOp.err = "") =>
        \A i \in 1..Len(lastOp.arg[2]) :
          Cardinality({ p \in posts : p.feed_id = lastOp.arg[1]
                                       /\ p.guid = lastOp.arg[2][i].guid }) = 1

C1_Witness ==
  /\ lastOp.op = "upsertPosts" /\ lastOp.err = ""
  /\ Len(lastOp.arg[2]) = 2
  /\ lastOp.arg[2][1].guid = "" /\ lastOp.arg[2][2].guid = ""
  /\ lastOp.ret = 1
  /\ Cardinality({ p \in posts : p.feed_id = lastOp.arg[1] /\ p.guid = "" }) = 1

\* C2: an upsertPosts call that repeats the call before it returns 0 and
\* leaves the posts (and the index) as they were, each guid of the batch
\* being held by exactly one post.
C2_UpsertIdempotent ==
  [][ (lastOp'.op = "upsertPosts" /\ lastOp'.again) =>
        /\ lastOp'.err = ""
        /\ lastOp'.ret = 0
        /\ posts' = posts
        /\ posts_fts' = posts_fts
        /\ \A i \in 1..Len(lastOp'.arg[2]) :
             Cardinality({ p \in posts' : p.feed_id = lastOp'.arg[1]
                                           /\ p.guid = lastOp'.arg[2][i].guid }) = 1 ]_vars

C2_Witness ==
  /\ lastOp.op = "upsertPosts" /\ lastOp.again /\ lastOp.err = ""
  /\ Len(lastOp.arg[2]) > 0
  /\ lastOp.ret = 0
  /\ \E p \in posts : p.feed_id = lastOp.arg[1] /\ p.guid = lastOp.arg[2][1].guid

\* C3: an upsertPosts entry whose (feedId, guid) already exists leaves the
\* existing post exactly as it was, whatever the entry carries.
C3_FirstWriteWins ==
  [][ lastOp'.op = "upsertPosts" =>
        \A p \in posts :
          (p.feed_id = lastOp'.arg[1]
             /\ \E i \in 1..Len(lastOp'.arg[2]) : lastOp'.arg[2][i].guid = p.guid)
          => \E q \in posts' :
               /\ q.id = p.id /\ q.feed_id = p.feed_id /\ q.guid = p.guid
               /\ q.title = p.title /\ q.url = p.url /\ q.summary = p.summary
               /\ q.content = p.content /\ q.author = p.author
               /\ q.published_at = p.published_at /\ q.fetched_at = p.fetched_at
               /\ q.is_read = p.is_read /\ q.read_at = p.read_at
               /\ q.starred = p.starred ]_vars

C3_Witness ==
  /\ lastOp.op = "upsertPosts" /\ lastOp.err = ""
  /\ Len(lastOp.arg[2]) = 1 /\ lastOp.ret = 0
  /\ \E p \in posts :
       /\ p.feed_id = lastOp.arg[1] /\ p.guid = lastOp.arg[2][1].guid
       /\ p.title # lastOp.arg[2][1].title
       /\ p.url # lastOp.arg[2][1].url
       /\ p.is_read = 1 /\ p.content # NULL

\* C4: the search index holds exactly one entry per live post, carrying the
\* post's current title, summary and content, and no entry of a removed or
\* overwritten row.
C4_IndexInSync ==
  /\ \A p \in posts : CopiesIn(FtsRow(p), posts_fts) = 1
  /\ \A e \in BagToSet(posts_fts) : \E p \in posts : e = FtsRow(p)

C4_Witness ==
  /\ lastOp.op = "updatePostContent"
  /\ lastOp.arg[2] = "c2"
  /\ \E p \in posts :
       /\ p.id = lastOp.arg[1] /\ p.content = Some("c2")
       /\ CopiesIn(FtsRow(p), posts_fts) = 1
       /\ CopiesIn([FtsRow(p) EXCEPT !.content = Some("c1")], posts_fts) = 0
       /\ CopiesIn([FtsRow(p) EXCEPT !.content = NULL], posts_fts) = 0
  /\ sqlite_sequence.posts > Cardinality(posts)

\* the error the INSERT of addFeed throws on a subscribed url
DuplicateFeedError == "SQLITE_CONSTRAINT_UNIQUE"

\* C6: addFeed with a subscribed url throws the unique-constraint error and
\* leaves the feed table as it was; with a new url it adds one feed whose
\* last_fetched, etag and last_modified are null; no two feeds share a url.
C6_AddFeed ==
  [][ lastOp'.op = "addFeed" =>
        /\ \A f \in feeds', g \in feeds' : f.url = g.url => f = g
        /\ IF \E f \in feeds : f.url = lastOp'.arg[1]
           THEN lastOp'.err = DuplicateFeedError /\ feeds' = feeds
           ELSE /\ lastOp'.err = ""
                /\ \E f \in feeds' \ feeds :
                     /\ feeds' = feeds \cup {f}
                     /\ lastOp'.ret = Some(f)
                     /\ f.url = lastOp'.arg[1]
                     /\ f.last_fetched = NULL /\ f.etag = NULL /\ f.last_modified = NULL ]_vars

C6_Witness ==
  /\ lastOp.op = "addFeed" /\ lastOp.err = DuplicateFeedError
  /\ Cardinality({ f \in feeds : f.url = lastOp.arg[1] }) = 1
  /\ Cardinality(feeds) = 2

\* C7: for every post is_read = 0 exactly when read_at is null and
\* is_read = 1 exactly when read_at holds a timestamp.
C7_ReadFlagMatchesReadAt ==
  \A p \in posts :
    /\ p.is_read \in {0, 1}
    /\ (p.is_read = 0) <=> (p.read_at = NULL)
    /\ (p.is_read = 1) <=> (Len(p.read_at) = 1 /\ p.read_at[1] \in Nat)

C7_Witness ==
  /\ lastOp.op = "markUnread"
  /\ \E p \in posts, q \in posts :
       /\ p.id \in lastOp.arg[1] /\ p.is_read = 0 /\ p.read_at = NULL
       /\ q.id \notin lastOp.arg[1] /\ q.is_read = 1 /\ q.read_at = Some(now)

\* C16 as stated: markRead and markUnread return the number of posts the
\* call changed.
C16_ReturnsChangedCount ==
  [][ lastOp'.op \in {"markRead", "markUnread"} =>
        lastOp'.ret = Cardinality({ p \in posts : p \notin posts' }) ]_vars

\* C16 amended: markRead and markUnread return 0 and change nothing when ids
\* is empty; otherwise they set the read state of every post whose id is in
\* ids and return the number of those posts, a post already in that state
\* included; an id without a post is skipped and no other post is touched.
C16_ReturnsMatchedCount ==
  [][ lastOp'.op \in {"markRead", "markUnread"} =>
        LET ids == lastOp'.arg[1]
            hit == { p \in posts : p.id \in ids }
        IN /\ lastOp'.err = ""
           /\ ids = {} => (lastOp'.ret = 0 /\ posts' = posts /\ posts_fts' = posts_fts)
           /\ lastOp'.ret = Cardinality(hit)
           /\ feeds' = feeds
           /\ posts' = { IF p \in hit
                          THEN IF lastOp'.op = "markRead"
                               THEN [p EXCEPT !.is_read = 1, !.read_at = Some(now)]
                               ELSE [p EXCEPT !.is_read = 0, !.read_at = NULL]
                          ELSE p : p \in posts } ]_vars

C16_Witness ==
  /\ lastOp.op = "markUnread" /\ lastOp.again
  /\ lastOp.arg[1] = {1, 2}
  /\ lastOp.ret = 1
  /\ Cardinality(posts) = 1
  /\ \A p \in posts : p.is_read = 0

\* C17: an updateFeedMeta call that passes null for title or siteUrl leaves
\* the stored title or site url as it was, whether it was set by addFeed or
\* by an earlier call, and a value passed replaces the stored one; the call
\* touches no other feed.
C17_MetaCoalesce ==
  [][ lastOp'.op = "updateFeedMeta" =>
        \A f \in feeds :
          IF f.id = lastOp'.arg[1]
          THEN \E g \in feeds' :
                 /\ g.id = f.id /\ g.url = f.url
                 /\ g.title = IF lastOp'.arg[2] = NULL THEN f.title ELSE lastOp'.arg[2]
                 /\ g.site_url = IF lastOp'.arg[3] = NULL THEN f.site_url ELSE lastOp'.arg[3]
          ELSE f \in feeds' ]_vars

C17_Witness ==
  /\ lastOp.op = "updateFeedMeta" /\ lastOp.again
  /\ lastOp.arg[2] = NULL /\ lastOp.arg[3] = NULL
  /\ \E f \in feeds :
       /\ f.id = lastOp.arg[1]
       /\ f.title = Some("T0") /\ f.site_url = Some("S")
       /\ f.last_fetched # NULL

\* ========================================================= refresh claims
\* C5: every post's feed_id references a live feed and every index entry a
\* live post, in every state, also when removeFeed runs while refresh_feeds
\* waits for the fetch of that feed and the run then resumes with
\* upsertPosts; removeFeed removes every post the feed owns together with
\* its index entry, and no other post.
C5_CascadeNoOrphans ==
  [][ /\ \A p \in posts' : \E f \in feeds' : f.id = p.feed_id
      /\ \A e \in BagToSet(posts_fts') : \E p \in posts' : p.id = e.rowid
      /\ lastOp'.op = "removeFeed" =>
            \A p \in posts :
              IF p.feed_id = lastOp'.arg[1]
              THEN /\ \A q \in posts' : q.id # p.id
                   /\ \A e \in BagToSet(posts_fts') : e.rowid # p.id
              ELSE p \in posts' ]_vars

C5_Witness ==
  /\ pc = "loop"
  /\ Len(run.trace) > 0
  /\ LET last == run.trace[Len(run.trace)]
     IN /\ last.outcome = "error"
        /\ last.message = "SQLITE_CONSTRAINT_FOREIGNKEY"
        /\ \A f \in feeds : f.id # last.feed_id
        /\ \A p \in posts : p.feed_id # last.feed_id
  /\ posts # {}

\* the instant a datetime('now') text denotes
InstantOf(text) == text * 1000

\* C8: in a refresh run every feed whose last_fetched lies less than 15
\* minutes before the run is counted as skipped without a fetch being issued
\* for it, and a feed whose last_fetched is null is never skipped by the
\* rate limit.
C8_RateLimitWindow ==
  \A j \in 1..Len(run.feeds) :
    LET f == run.feeds[j]
        recent == ~IsNull(f.last_fetched)
                  /\ run.now - InstantOf(f.last_fetched[1]) < minInterval
    IN /\ (pc = "fetching" /\ j = run.i) => ~recent
       /\ j <= Len(run.trace) =>
            /\ recent => (run.trace[j].outcome = "rate_limited" /\ ~run.trace[j].fetched)
            /\ IsNull(f.last_fetched) => run.trace[j].outcome # "rate_limited"

\* C9: a run over one feed that starts less than 15 minutes after the run
\* that refreshed this feed reports one skipped feed and zero new posts.
C9_SecondRunSkips ==
  ( /\ pc = "loop" /\ run.i > Len(run.feeds)
    /\ ~IsNull(lastRun)
    /\ Len(run.feeds) = 1
    /\ run.feeds[1].id \in lastRun[1].refreshed
    /\ run.now - lastRun[1].start < minInterval )
  => (run.results.skipped = 1 /\ run.results.new_posts = 0)

\* C10: a fetch or parse failure for one feed adds exactly one entry with
\* that feed's id, url and message to the run's errors and nothing else stops:
\* the feeds are handled one after the other and the run reaches its return
\* with every selected feed handled.
C10_ErrorsIsolated ==
  /\ \A j \in 1..Len(run.trace) :
       run.trace[j].outcome = "error" =>
         Cardinality({ k \in 1..Len(run.results.errors) :
                         /\ run.results.errors[k].feed_id = run.feeds[j].id
                         /\ run.results.errors[k].url = run.feeds[j].url
                         /\ run.results.errors[k].error = run.trace[j].message }) = 1
  /\ Len(run.results.errors) =
       Cardinality({ j \in 1..Len(run.trace) : run.trace[j].outcome = "error" })
  /\ pc \in {"loop", "fetching"} => run.i = Len(run.trace) + 1
  /\ (pc = "loop" /\ run.i > Len(run.feeds)) =>
       /\ Len(run.trace) = Len(run.feeds)
       /\ ENABLED RefreshReturn

C10_Witness ==
  /\ pc = "loop" /\ run.i > Len(run.feeds)
  /\ Len(run.feeds) = 2
  /\ run.trace[1].outcome = "error"
  /\ run.trace[1].message \in {"fetch failed", "HTTP error", "parse failed"}
  /\ run.trace[2].outcome = "refreshed"
  /\ run.results.refreshed = 1
  /\ Len(run.results.errors) = 1
  /\ run.results.errors[1].feed_id = run.feeds[1].id

\* C11: when the fetch of an eligible feed answers 304, the feed is counted
\* as skipped and the attempt changes nothing stored: no feed column (title,
\* site url, etag, last-modified, last-fetched) and no post or index entry.
C11_NotModifiedChangesNothing ==
  [][ (pc = "fetching" /\ pc' = "loop"
         /\ run'.trace[Len(run'.trace)].status = Some(304)) =>
        /\ feeds' = feeds
        /\ posts' = posts
        /\ posts_fts' = posts_fts
        /\ sqlite_sequence' = sqlite_sequence
        /\ run'.results = [run.results EXCEPT !.skipped = @ + 1] ]_vars

C11_Witness ==
  /\ pc = "loop"
  /\ Len(run.trace) > 0
  /\ LET last == run.trace[Len(run.trace)]
     IN /\ last.status = Some(304)
        /\ run.results.skipped = 1
        /\ \E f \in feeds :
             /\ f.id = last.feed_id
             /\ f.title = Some("T") /\ f.etag = Some("e1")
             /\ ~IsNull(f.last_fetched)
             /\ InstantOf(f.last_fetched[1]) + minInterval <= run.now
             /\ \E p \in posts : p.feed_id = f.id

\* C12 as stated: every attempt that ends refreshed or errored leaves the
\* feed's last_fetched at the time of the attempt.
C12_LastFetchedAdvances ==
  [][ (pc = "fetching" /\ pc' = "loop"
         /\ run'.trace[Len(run'.trace)].outcome \in {"refreshed", "error"}) =>
        \A f \in feeds :
          f.id = run'.trace[Len(run'.trace)].feed_id =>
            \E g \in feeds' : g.id = f.id /\ g.last_fetched = Some(now \div 1000) ]_vars

\* C12 amended: an attempt that ends refreshed sets the last_fetched of the
\* feed, when it is still subscribed, to the time of the commit; an attempt
\* that ends errored or skipped leaves last_fetched as it was.
C12_LastFetchedOnCommit ==
  [][ (pc = "fetching" /\ pc' = "loop") =>
        \A f \in feeds :
          f.id = run'.trace[Len(run'.trace)].feed_id =>
            \E g \in feeds' :
              /\ g.id = f.id
              /\ IF run'.trace[Len(run'.trace)].outcome = "refreshed"
                 THEN g.last_fetched = Some(now \div 1000)
                 ELSE g.last_fetched = f.last_fetched ]_vars

C12_Witness ==
  /\ pc = "loop"
  /\ Len(run.trace) > 0
  /\ LET last == run.trace[Len(run.trace)]
     IN /\ last.outcome = "error"
        /\ \E f \in feeds :
             /\ f.id = last.feed_id
             /\ ~IsNull(f.last_fetched)
             /\ f.last_fetched[1] < now \div 1000

\* ========================================================== query claims
\* C13: the rows getPosts returns are ordered by published time descending,
\* and every row without a published time comes after every row with one.
C13_OrderedNullsLast ==
  lastOp.op = "getPosts" =>
    \A i \in 1..Len(lastOp.ret), j \in 1..Len(lastOp.ret) :
      i < j =>
        /\ IsNull(lastOp.ret[i].published_at) => IsNull(lastOp.ret[j].published_at)
        /\ (~IsNull(lastOp.ret[i].published_at) /\ ~IsNull(lastOp.ret[j].published_at))
             => lastOp.ret[i].published_at[1] >= lastOp.ret[j].published_at[1]

C13_Witness ==
  /\ lastOp.op = "getPosts"
  /\ Len(lastOp.ret) = 3
  /\ lastOp.ret[1].published_at = Some(2000)
  /\ lastOp.ret[2].published_at = Some(1000)
  /\ lastOp.ret[3].published_at = NULL
  /\ lastOp.ret[3].id < lastOp.ret[2].id
  /\ lastOp.ret[2].id < lastOp.ret[1].id

\* C14: getPosts returns only posts that satisfy every filter given (feedId,
\* unreadOnly, since, search) at once, no post twice, as many as the window
\* of limit and offset admits, and every satisfying post whose place in the
\* order lies inside the window whatever the order of ties; a term that
\* occurs only in a post's content selects the post.
C14_FiltersCombine ==
  lastOp.op = "getPosts" =>
    LET o == lastOp.arg[1]
        r == lastOp.ret
        Has(p, term) == p.title = Some(term) \/ p.summary = Some(term) \/ p.content = Some(term)
        sat == { p \in posts :
                   /\ o.feedId # NULL => p.feed_id = o.feedId[1]
                   /\ o.unreadOnly => p.is_read = 0
                   /\ o.since # NULL => (p.published_at # NULL /\ p.published_at[1] >= o.since[1])
                   /\ o.search # NULL => Has(p, o.search[1]) }
        Later(p, q) == \/ p.published_at # NULL /\ q.published_at = NULL
                       \/ p.published_at # NULL /\ q.published_at # NULL
                            /\ p.published_at[1] > q.published_at[1]
        before(p) == Cardinality({ q \in sat : Later(q, p) })
        notAfter(p) == Cardinality({ q \in sat : q # p /\ ~Later(p, q) })
        room == IF Cardinality(sat) > o.offset THEN Cardinality(sat) - o.offset ELSE 0
        returned == { lastOp.ret[i].id : i \in 1..Len(r) }
    IN /\ \A i \in 1..Len(r) : \E p \in sat : p.id = r[i].id /\ p.content = r[i].content
       /\ \A i \in 1..Len(r), j \in 1..Len(r) : r[i].id = r[j].id => i = j
       /\ Len(r) = IF o.limit < room THEN o.limit ELSE room
       /\ \A p \in sat :
            (before(p) >= o.offset /\ notAfter(p) < o.offset + o.limit) => p.id \in returned

C14_Witness ==
  /\ lastOp.op = "getPosts"
  /\ lastOp.arg[1].feedId = Some(1)
  /\ lastOp.arg[1].unreadOnly
  /\ lastOp.arg[1].since # NULL
  /\ lastOp.arg[1].search = Some("w")
  /\ lastOp.arg[1].limit = 50
  /\ Len(lastOp.ret) = 1
  /\ lastOp.ret[1].content = Some("w")
  /\ lastOp.ret[1].title # Some("w")
  /\ lastOp.ret[1].summary # Some("w")
  /\ Cardinality(posts) = 3
  /\ \E p \in posts : p.title = Some("w") /\ p.feed_id = 1

\* ======================================================== content claims
\* the i-th character of an article text: its source and its place there
RECURSIVE CharAt(_, _)
CharAt(text, i) ==
  IF i <= Head(text).hi - Head(text).lo
  THEN <<Head(text).src, Head(text).lo + i>>
  ELSE CharAt(Tail(text), i - (Head(text).hi - Head(text).lo))

\* C15: getPostContent(id, full = false) on a post whose stored content is
\* longer than 5000 returns its first 5000 characters followed by the
\* truncation marker, with truncated = true; with full = true, or a stored
\* content of at most 5000, it returns the stored content (the empty text
\* for a post without content) with truncated = false; for an id without a
\* post it returns null.
C15_Truncation ==
  lastOp.op = "getPostContent" =>
    IF \A p \in posts : p.id # lastOp.arg[1]
    THEN lastOp.ret = NULL
    ELSE LET p == CHOOSE q \in posts : q.id = lastOp.arg[1]
             r == lastOp.ret[1]
         IN /\ lastOp.ret # NULL
            /\ IF p.content # NULL /\ TextLen(p.content[1]) > 5000 /\ ~lastOp.arg[2]
               THEN /\ r.truncated = TRUE
                    /\ TextLen(r.content) = 5000 + 58
                    /\ \A i \in 1..5000 : CharAt(r.content, i) = CharAt(p.content[1], i)
                    /\ \A i \in 1..58 : CharAt(r.content, 5000 + i) = <<"TRUNCATION_MARKER", i>>
               ELSE /\ r.truncated = FALSE
                    /\ p.content # NULL => r.content = p.content[1]
                    /\ p.content = NULL => r.content = <<>>

C15_Witness ==
  /\ lastOp.op = "getPostContent"
  /\ lastOp.arg[2] = FALSE
  /\ lastOp.ret # NULL
  /\ lastOp.ret[1].truncated
  /\ \E p \in posts :
       /\ p.id = lastOp.arg[1]
       /\ p.content = Some(<< Piece("a", 0, 4000), Piece("b", 0, 2000) >>)
       /\ lastOp.ret[1].content =
            << Piece("a", 0, 4000), Piece("b", 0, 1000), Piece("TRUNCATION_MARKER", 0, 58) >>

\* C20: a get_post_content call on a post with a url and no stored content
\* requests the article; when a text is extracted it becomes the content of
\* that post and nothing else stored changes; a stored content stays, and a
\* call on a post with stored content returns it without requesting anything.
C20_ContentCached ==
  [][ /\ (reader.pc = "idle" /\ lastOp'.op = "getPostContent") =>
           \A p \in posts :
             p.id = lastOp'.arg[1] =>
               /\ (p.content = NULL /\ p.url # NULL) =>
                    (reader'.pc = "extracting" /\ reader'.fetched)
               /\ p.content # NULL =>
                    /\ reader'.pc = "idle" /\ ~reader'.fetched
                    /\ reader'.response = lastOp'.ret
                    /\ reader'.response # NULL
                    /\ (lastOp'.arg[2] \/ TextLen(p.content[1]) <= 5000)
                         => reader'.response[1].content = p.content[1]
      /\ (reader.pc = "extracting" /\ reader'.pc = "idle") =>
           /\ feeds' = feeds /\ sqlite_sequence' = sqlite_sequence
           /\ posts' = IF reader'.extracted # NULL /\ reader'.extracted # Some(<<>>)
                        THEN { IF p.id = reader.post_id
                               THEN [p EXCEPT !.content = reader'.extracted] ELSE p : p \in posts }
                        ELSE posts
      /\ \A p \in posts : p.content # NULL => \A q \in posts' : q.id = p.id => q.content = p.content
    ]_vars

C20_Witness ==
  /\ reader.pc = "idle"
  /\ ~reader.fetched
  /\ lastOp.op = "getPostContent" /\ lastOp.again
  /\ reader.response # NULL
  /\ reader.response = lastOp.ret
  /\ reader.response[1].content = << Piece("a", 0, 2) >>
  /\ \E p \in posts : p.id = reader.post_id /\ p.content = Some(<< Piece("a", 0, 2) >>)

\* C22: when a refresh run returns, every selected feed has ended in exactly
\* one outcome, in the order selected, and is counted once: refreshed,
\* skipped and the error entries count the feeds of their outcome and add up
\* to the number of feeds selected
C22_EveryFeedCountedOnce ==
  [][ (pc = "loop" /\ pc' = "idle") =>
        LET Count(outcomes) ==
              Cardinality({ k \in 1..Len(run.trace) : run.trace[k].outcome \in outcomes })
        IN /\ Len(run.trace) = Len(run.feeds)
           /\ \A k \in 1..Len(run.trace) :
                /\ run.trace[k].feed_id = run.feeds[k].id
                /\ run.trace[k].outcome \in {"rate_limited", "not_modified", "refreshed", "error"}
           /\ run.results.refreshed = Count({"refreshed"})
           /\ run.results.skipped = Count({"rate_limited", "not_modified"})
           /\ Len(run.results.errors) = Count({"error"})
           /\ run.results.refreshed + run.results.skipped + Len(run.results.errors)
                = Len(run.feeds) ]_vars

C22_Witness ==
  /\ pc = "loop"
  /\ run.i > Len(run.feeds)
  /\ Len(run.feeds) = 2
  /\ run.results.skipped = 1
  /\ Len(run.results.errors) = 1

C24_ValidatorsOverwritten ==
  [][ /\ lastOp'.op = "updateFeedMeta" =>
           \A f \in feeds :
             f.id = lastOp'.arg[1] =>
               \E g \in feeds' : /\ g.id = f.id
                                  /\ g.etag = lastOp'.arg[4]
                                  /\ g.last_modified = lastOp'.arg[5]
                                  /\ g.last_fetched = Some(now \div 1000)
      /\ (pc = "fetching" /\ pc' = "loop"
             /\ run'.trace[Len(run'.trace)].outcome = "refreshed") =>
           \A f \in feeds :
             f.id = run'.trace[Len(run'.trace)].feed_id =>
               \E g \in feeds' : /\ g.id = f.id
                                  /\ g.etag = run'.trace[Len(run'.trace)].etag
                                  /\ g.last_modified = run'.trace[Len(run'.trace)].last_modified
                                  /\ g.last_fetched = Some(now \div 1000) ]_vars

\* a run has refreshed, with no new post, a feed whose stored validators were
\* set: the response carried none and none is stored now
C24_Witness ==
  /\ pc = "loop"
  /\ Len(run.trace) = 1
  /\ run.trace[1].outcome = "refreshed"
  /\ run.trace[1].etag = NULL
  /\ run.results.new_posts = 0
  /\ run.feeds[1].etag = Some("e1")
  /\ run.feeds[1].last_modified = Some("m1")
  /\ \E f \in feeds : /\ f.id = run.feeds[1].id
                       /\ f.etag = NULL
                       /\ f.last_modified = NULL
                       /\ f.last_fetched # run.feeds[1].last_fetched

\* C25: an upsertPosts call that throws, at whichever entry of the batch,
\* leaves the post table, the search index and the id counter as they were
C25_UpsertAtomic ==
  [][ (lastOp'.op = "upsertPosts" /\ lastOp'.err # "") =>
        /\ posts' = posts
        /\ posts_fts' = posts_fts
        /\ sqlite_sequence' = sqlite_sequence ]_vars

\* a batch of two entries with different guids for a live feed without posts
\* has failed at its second entry
C25_Witness ==
  /\ lastOp.op = "upsertPosts"
  /\ lastOp.err = "SQLITE_FULL"
  /\ Len(lastOp.arg) = 3
  /\ lastOp.arg[3] = 2
  /\ lastOp.arg[2][1].guid # lastOp.arg[2][2].guid
  /\ lastOp.arg[1] \in FeedIds
  /\ posts = {}

\* C27: the instant refresh_feeds reads from the last_fetched of a selected
\* feed is the instant, in whole seconds, at which updateFeedMeta wrote it
C27_LastFetchedReadBack ==
  \A j \in 1..Len(run.feeds) :
    ~IsNull(run.feeds[j].last_fetched) =>
      DateParse(run.feeds[j].last_fetched[1], tz) = InstantOf(run.feeds[j].last_fetched[1])

====
